---- MODULE Spec2Model ----
(***************************************************************************)
(* Model of the CSV <-> QTI converters: the encoder create_qti_zip of      *)
(* CSVtoQTI2.py and the decoder convert_qti_to_csv / clean_text of         *)
(* QTIconverter3.py.                                                       *)
(*                                                                         *)
(* Texts are sequences of symbols. The characters the code inspects one by *)
(* one are symbols of their own ("<", ">", "&", ";", " ", "l", "t", the    *)
(* digits, ".", "-", "/"); a run of other letters that the code only moves *)
(* around or compares as a whole ("True", "div", "general_fb") is one      *)
(* symbol. Python's None is the value None below.                          *)
(***************************************************************************)
EXTENDS Integers, Sequences, FiniteSets, TLC

VARIABLES
    pc,             \* position of the running conversion
    header,         \* encoder: the header line of the CSV document
    csv_rows,       \* encoder: the lines the reader has read so far
    section,        \* encoder: the item elements of the section, in order
    total_points,   \* encoder: running total, in hundredths
    warnings,       \* encoder: the warnings list
    question_count, \* encoder: number of items built
    uuids,          \* encoder: number of uuid4 values drawn
    assessment_id,  \* encoder: identifier of the assessment
    manifest_id,    \* encoder: identifier of the manifest
    dependency_id,  \* encoder: identifier of the metadata resource
    zip,            \* the archive: its entries [name, doc] in the order written
    root,           \* decoder: the items of the parsed assessment document
    visited,        \* decoder: number of items the loop has visited
    out_rows,       \* decoder: the rows written to the CSV
    row_item,       \* decoder: for each written row, the position of its item
    count,          \* decoder: number of rows written
    skipped_count,  \* decoder: number of items skipped
    csv_file,       \* decoder: the output file: "absent", "open" or "closed"
    ret,            \* what the last call handed to its caller
    conversions,    \* number of create_qti_zip calls started in this process
    raw_text,       \* clean_text: its argument
    result,         \* clean_text: the value it returned
    calls           \* clean_text: number of calls made on this text

None == <<"~None">>

\* the value of a call that has not returned yet
Pending == <<"~Pending">>

Min(S) == CHOOSE x \in S : \A y \in S : x <= y

(***************************************************************************)
(* Python string helpers                                                   *)
(***************************************************************************)
\* U+000B: whitespace for str.strip(), and no character of an XML document
VerticalTab == "U000B"

IsSpace(c) == c = " " \/ c = VerticalTab

RECURSIVE LStrip(_)
LStrip(s) == IF s # <<>> /\ IsSpace(Head(s)) THEN LStrip(Tail(s)) ELSE s

RECURSIVE RStrip(_)
RStrip(s) ==
    IF s # <<>> /\ IsSpace(s[Len(s)]) THEN RStrip(SubSeq(s, 1, Len(s) - 1)) ELSE s

\* str.strip()
Strip(s) == RStrip(LStrip(s))

(***************************************************************************)
(* clean_text                                                              *)
(***************************************************************************)
\* One match of the pattern '<[^<]+?>' starting at position i: "<", then at
\* least one symbol that is not "<", lazily extended up to the first ">".
\* The value is the position of the closing ">", or 0 when nothing matches.
TagEnd(s, i) ==
    LET ends == { j \in (i + 2)..Len(s) :
                    /\ s[j] = ">"
                    /\ \A k \in (i + 1)..(j - 1) : s[k] # "<" }
    IN  IF s[i] = "<" /\ ends # {} THEN Min(ends) ELSE 0

\* re.sub('<[^<]+?>', '', s): leftmost matches, left to right, not overlapping
RECURSIVE SubTagsFrom(_, _)
SubTagsFrom(s, i) ==
    IF i > Len(s) THEN <<>>
    ELSE IF TagEnd(s, i) # 0 THEN SubTagsFrom(s, TagEnd(s, i) + 1)
    ELSE <<s[i]>> \o SubTagsFrom(s, i + 1)

StripTags(s) == SubTagsFrom(s, 1)

\* html.entities.html5 restricted to the names spelled with "l", "t", ">"
\* and ";" (the only name symbols that follow "&" in the texts of this model);
\* "U226A" stands for the character U+226A that "&ll;" names
html5 ==
    { <<<<"l", "t">>, "<">>,
      <<<<"l", "t", ";">>, "<">>,
      <<<<"l", "l", ";">>, "U226A">> }

InHtml5(name) == \E e \in html5 : e[1] = name

Html5Of(name) == (CHOOSE e \in html5 : e[1] = name)[2]

\* [^\t\n\f <&#;]
IsNameSym(c) == c \notin {" ", "<", "&", ";", "#"}

\* length of the longest run of name symbols of s from position i (at most 32)
RECURSIVE NameRun(_, _)
NameRun(s, i) ==
    IF i <= Len(s) /\ IsNameSym(s[i]) THEN 1 + NameRun(s, i + 1) ELSE 0

\* html._replace_charref for a named reference `name` (text after the "&")
ReplaceCharref(name) ==
    IF InHtml5(name) THEN <<Html5Of(name)>>
    ELSE LET xs == { x \in 2..(Len(name) - 1) : InHtml5(SubSeq(name, 1, x)) }
         IN  IF xs # {}
             THEN LET x == CHOOSE y \in xs : \A z \in xs : z <= y
                  IN  <<Html5Of(SubSeq(name, 1, x))>> \o SubSeq(name, x + 1, Len(name))
             ELSE <<"&">> \o name

\* html.unescape: every match of &([^\t\n\f <&#;]{1,32};?) is replaced
RECURSIVE UnescapeFrom(_, _)
UnescapeFrom(s, i) ==
    IF i > Len(s) THEN <<>>
    ELSE IF s[i] = "&" /\ NameRun(s, i + 1) > 0
    THEN LET n    == NameRun(s, i + 1)
             semi == IF i + n + 1 <= Len(s) /\ s[i + n + 1] = ";" THEN 1 ELSE 0
         IN  ReplaceCharref(SubSeq(s, i + 1, i + n + semi))
                 \o UnescapeFrom(s, i + n + semi + 1)
    ELSE <<s[i]>> \o UnescapeFrom(s, i + 1)

HtmlUnescape(s) == UnescapeFrom(s, 1)

clean_text(raw) ==
    IF raw = None \/ raw = <<>> THEN <<>>
    ELSE Strip(HtmlUnescape(StripTags(raw)))

(***************************************************************************)
(* Numbers. A float is carried as its exact number of hundredths: the      *)
(* Points texts of this model have at most two fractional digits and are   *)
(* dyadic (5, 2.5, 0.25, -3), so Python's float arithmetic on them is      *)
(* exact.                                                                  *)
(***************************************************************************)
Digits == <<"0", "1", "2", "3", "4", "5", "6", "7", "8", "9">>

IsDigit(c) == \E d \in 1..10 : Digits[d] = c

DigitVal(c) == (CHOOSE d \in 1..10 : Digits[d] = c) - 1

\* a character that str.isdigit() accepts and int() rejects: the superscript
\* two, U+00B2 (category No)
SuperscriptTwo == "U00B2"

\* str.isdigit()
IsDigitStr(s) ==
    s # <<>> /\ \A k \in 1..Len(s) : IsDigit(s[k]) \/ s[k] = SuperscriptTwo

\* the texts int() converts, among those str.isdigit() accepts
IsDecimalStr(s) == s # <<>> /\ \A k \in 1..Len(s) : IsDigit(s[k])

\* int(s) for a text of digits
RECURSIVE IntOf(_)
IntOf(s) ==
    IF s = <<>> THEN 0 ELSE 10 * IntOf(SubSeq(s, 1, Len(s) - 1)) + DigitVal(s[Len(s)])

\* str(n) for an integer n >= 0
RECURSIVE IntStr(_)
IntStr(n) ==
    IF n < 10 THEN <<Digits[n + 1]>> ELSE IntStr(n \div 10) \o <<Digits[(n % 10) + 1]>>

\* float(x): [ok |-> TRUE, val |-> hundredths], [ok |-> FALSE, err |-> e] where
\* e is the exception raised ("TypeError" for None, "ValueError" for a text
\* that is no number)
ParseFloat(x) ==
    IF x = None THEN [ok |-> FALSE, err |-> "TypeError", val |-> 0]
    ELSE LET s    == Strip(x)
             neg  == s # <<>> /\ Head(s) = "-"
             u    == IF neg THEN Tail(s) ELSE s
             dots == { k \in 1..Len(u) : u[k] = "." }
             ip   == IF dots = {} THEN u ELSE SubSeq(u, 1, Min(dots) - 1)
             fp   == IF dots = {} THEN <<>> ELSE SubSeq(u, Min(dots) + 1, Len(u))
             wellformed ==
                 /\ Cardinality(dots) <= 1
                 /\ \A k \in 1..Len(ip) : IsDigit(ip[k])
                 /\ \A k \in 1..Len(fp) : IsDigit(fp[k])
                 /\ Len(ip) + Len(fp) > 0
                 /\ Len(fp) <= 2
             frac == IF Len(fp) = 0 THEN 0
                     ELSE IF Len(fp) = 1 THEN 10 * IntOf(fp) ELSE IntOf(fp)
             mag  == 100 * IntOf(ip) + frac
         IN  IF wellformed
             THEN [ok |-> TRUE, err |-> "", val |-> IF neg THEN 0 - mag ELSE mag]
             ELSE [ok |-> FALSE, err |-> "ValueError", val |-> 0]

Abs(v) == IF v < 0 THEN 0 - v ELSE v

SignStr(v) == IF v < 0 THEN <<"-">> ELSE <<>>

\* str(x) of a float: the shortest repr, with at least one fractional digit
FloatStr(v) ==
    LET a == Abs(v)
        f == a % 100
    IN  SignStr(v) \o IntStr(a \div 100) \o <<".">> \o
            (IF f % 10 = 0 THEN IntStr(f \div 10)
             ELSE <<Digits[(f \div 10) + 1], Digits[(f % 10) + 1]>>)

\* f"{x:.2f}"
Fmt2(v) ==
    LET a == Abs(v)
    IN  SignStr(v) \o IntStr(a \div 100) \o <<".">> \o
            <<Digits[((a % 100) \div 10) + 1], Digits[(a % 10) + 1]>>

\* str.upper() and str.lower() on the letter symbols of this model
UpperSym(c) ==
    CASE c = "mc" -> "MC" [] c = "tf" -> "TF" [] c = "essay" -> "ESSAY"
      [] c = "l" -> "L" [] c = "t" -> "T" [] c = "x" -> "X" [] c = "y" -> "Y"
      [] OTHER -> c

LowerSym(c) ==
    CASE c = "True" -> "true" [] c = "TRUE" -> "true"
      [] c = "False" -> "false" [] c = "FALSE" -> "false"
      [] c = "MC" -> "mc" [] c = "TF" -> "tf"
      [] c = "Type" -> "type" [] c = "Correct Answer" -> "correct answer"
      [] c = "L" -> "l" [] c = "T" -> "t" [] c = "X" -> "x" [] c = "Y" -> "y"
      [] OTHER -> c

Upper(s) == [k \in 1..Len(s) |-> UpperSym(s[k])]

Lower(s) == [k \in 1..Len(s) |-> LowerSym(s[k])]

\* Python truthiness of a text or None
Truthy(x) == x # None /\ x # <<>>

(***************************************************************************)
(* XML text: ET.tostring escapes, ET.parse unescapes, and an element whose *)
(* text is empty is read back with text None.                              *)
(***************************************************************************)
XmlEscapeSym(c) ==
    CASE c = "&" -> <<"&", "amp", ";">>
      [] c = "<" -> <<"&", "l", "t", ";">>
      [] c = ">" -> <<"&", "gt", ";">>
      [] OTHER -> <<c>>

RECURSIVE XmlEscape(_)
XmlEscape(s) ==
    IF s = None \/ s = <<>> THEN <<>> ELSE XmlEscapeSym(Head(s)) \o XmlEscape(Tail(s))

RECURSIVE XmlUnescapeFrom(_, _)
XmlUnescapeFrom(s, i) ==
    IF i > Len(s) THEN <<>>
    ELSE IF s[i] = "&"
    THEN IF s[i + 1] = "amp" THEN <<"&">> \o XmlUnescapeFrom(s, i + 3)
         ELSE IF s[i + 1] = "gt" THEN <<">">> \o XmlUnescapeFrom(s, i + 3)
         ELSE <<"<">> \o XmlUnescapeFrom(s, i + 4)
    ELSE <<s[i]>> \o XmlUnescapeFrom(s, i + 1)

\* the .text of a parsed element whose serialized content is s
XmlText(s) == IF s = <<>> THEN None ELSE XmlUnescapeFrom(s, 1)

(***************************************************************************)
(* The tabular document. A row is what csv.DictReader yields: a mapping    *)
(* from the header's column names to cells; the cells a short line does    *)
(* not have are None (DictReader's restval). Columns stand in the order of *)
(* fieldnames.                                                             *)
(***************************************************************************)
fieldnames ==
    << "Type", "Title", "Points", "Question Body", "Correct Answer",
       "Option 1", "Option 2", "Option 3", "Option 4", "Option 5",
       "General Feedback", "Correct Feedback", "Incorrect Feedback",
       "Feedback 1", "Feedback 2", "Feedback 3", "Feedback 4", "Feedback 5" >>

Columns == { fieldnames[k] : k \in 1..Len(fieldnames) }

ColIndex(c) == CHOOSE k \in 1..Len(fieldnames) : fieldnames[k] = c

\* the encoder's range(1, 6) and the decoder's `if i >= 5: break`
MaxOptions == 5

\* f'Option {x}' and f'Feedback {x}'
OptionCol(x) == fieldnames[5 + x]

FeedbackCol(x) == fieldnames[13 + x]

\* a header line that spells every column as fieldnames does: an entry is the
\* column the cells under it are meant for and the name as written
CanonicalHeader ==
    [k \in 1..Len(fieldnames) |-> [col |-> fieldnames[k], name |-> <<fieldnames[k]>>]]

\* line 36: reader.fieldnames = [name.strip() for name in reader.fieldnames]
StrippedNames(hdr) == [k \in 1..Len(hdr) |-> Strip(hdr[k].name)]

\* line 38: the dict csv.DictReader yields for a line under a header; the keys
\* the code never asks for are left out, and of two columns with one name the
\* later one wins
ReadRow(hdr, line) ==
    LET names == StrippedNames(hdr)
        At(c) == { k \in 1..Len(hdr) : names[k] = <<c>> }
        Last(S) == CHOOSE k \in S : \A j \in S : j <= k
    IN  [c \in { c \in Columns : At(c) # {} } |->
            IF hdr[Last(At(c))].col \in DOMAIN line
            THEN line[hdr[Last(At(c))].col] ELSE <<"n">>]

\* row.get(key, default)
Get(row, key, default) == IF key \in DOMAIN row THEN row[key] ELSE default

\* f"i{uuid.uuid4().hex}": the n-th identifier drawn in a conversion; uuid4
\* values are taken to be fresh, the n-th being the digits of n
NewId(n) == <<"i">> \o IntStr(n)

NoElem == <<"NoElem">>

TRUE_FALSE == << <<"True">>, <<"False">> >>

\* line 42: row.get('Type', 'MC').upper().strip()
RowType(row) == Strip(Upper(Get(row, "Type", <<"MC">>)))

\* lines 47-51: float(row.get('Points', 0)), 0.0 after a ValueError
RowPoints(row) ==
    LET pf == ParseFloat(Get(row, "Points", <<"0">>))
    IN  IF pf.ok THEN pf.val ELSE 0

\* RowAnswers reading the Option cells for a TF row as it does for an MC row
RowAnswersFromCells(row) ==
    LET q_type == RowType(row)
        vals   == [x \in 1..MaxOptions |-> Strip(Get(row, OptionCol(x), <<>>))]
    IN  IF q_type \in {<<"TF">>, <<"MC">>} THEN SelectSeq(vals, LAMBDA v : v # <<>>)
        ELSE <<>>

\* lines 55-61: the answers of a row
RowAnswers(row) ==
    LET q_type == RowType(row)
        vals   == [x \in 1..MaxOptions |-> Strip(Get(row, OptionCol(x), <<>>))]
    IN  IF q_type = <<"TF">> THEN TRUE_FALSE
        ELSE IF q_type = <<"MC">> THEN SelectSeq(vals, LAMBDA v : v # <<>>)
        ELSE <<>>

\* lines 69-80: the 0-based index of the correct answer, or -1
RowCorrectIdx(row) ==
    LET raw_correct == Strip(Get(row, "Correct Answer", <<>>))
        correct_idx == IF IsDigitStr(raw_correct) THEN IntOf(raw_correct) - 1 ELSE 0 - 1
    IN  IF correct_idx # 0 - 1 /\ (correct_idx < 0 \/ correct_idx >= Len(RowAnswers(row)))
        THEN 0 - 1
        ELSE correct_idx

\* the warnings a row appends, in order: line 50, lines 64 and 66, lines 75
\* and 79
Warn(row_num, kind) == <<[row |-> row_num, kind |-> kind]>>

PointsWarnings(row, row_num) ==
    IF ParseFloat(Get(row, "Points", <<"0">>)).ok THEN <<>>
    ELSE Warn(row_num, "invalid_points")

OptionWarnings(row, row_num) ==
    IF RowType(row) = <<"TF">> THEN <<>>
    ELSE IF RowType(row) = <<"MC">>
    THEN (IF RowAnswers(row) = <<>> THEN Warn(row_num, "no_options") ELSE <<>>)
    ELSE Warn(row_num, "unknown_type")

CorrectWarnings(row, row_num) ==
    LET raw_correct == Strip(Get(row, "Correct Answer", <<>>))
        idx         == IF IsDigitStr(raw_correct) THEN IntOf(raw_correct) - 1 ELSE 0 - 1
    IN  (IF IsDigitStr(raw_correct) THEN <<>> ELSE Warn(row_num, "missing_correct"))
        \o (IF idx # 0 - 1 /\ (idx < 0 \/ idx >= Len(RowAnswers(row)))
            THEN Warn(row_num, "out_of_range") ELSE <<>>)

RowWarnings(row, row_num) ==
    PointsWarnings(row, row_num) \o OptionWarnings(row, row_num)
        \o CorrectWarnings(row, row_num)

\* the statement of the loop body at which the row raises, "" when it does not:
\* None has no .upper() (42) and no .strip() (60, 69), float(None) is a
\* TypeError, which `except ValueError` does not catch (48), and int() of a
\* text that isdigit() accepts and that is no decimal is a ValueError (73)
RowRaises(row) ==
    IF Get(row, "Type", <<"MC">>) = None THEN "type"
    ELSE IF Get(row, "Points", <<"0">>) = None THEN "points"
    ELSE IF /\ RowType(row) = <<"MC">>
            /\ \E x \in 1..MaxOptions : Get(row, OptionCol(x), <<>>) = None
    THEN "options"
    ELSE IF Get(row, "Correct Answer", <<>>) = None THEN "correct"
    ELSE IF /\ IsDigitStr(Strip(Get(row, "Correct Answer", <<>>)))
            /\ ~IsDecimalStr(Strip(Get(row, "Correct Answer", <<>>)))
    THEN "int"
    ELSE ""

\* add_feedback(ident, text), lines 127-132: the text goes into an attribute
\* named text (ET.Element's keyword arguments are attributes); the mattext
\* element itself has no text
add_feedback(ident, text) ==
    IF Truthy(text)
    THEN <<[ident   |-> ident,
            mattext |-> None,
            attrib  |-> <<"<", "p", ">">> \o text \o <<"<", "/", "p", ">">>]>>
    ELSE <<>>

\* lines 134-142
RowFeedbacks(row, answer_ids) ==
    LET PerAnswer[x \in 0..MaxOptions] ==
            IF x = 0 THEN <<>>
            ELSE PerAnswer[x - 1] \o
                 (IF x - 1 < Len(answer_ids)
                  THEN add_feedback(answer_ids[x] \o <<"_fb">>, Get(row, FeedbackCol(x), None))
                  ELSE <<>>)
    IN  add_feedback(<<"general_fb">>, Get(row, "General Feedback", None))
        \o add_feedback(<<"correct_fb">>, Get(row, "Correct Feedback", None))
        \o add_feedback(<<"general_incorrect_fb">>, Get(row, "Incorrect Feedback", None))
        \o (IF RowType(row) # <<"TF">> THEN PerAnswer[MaxOptions] ELSE <<>>)

\* lines 83-142: the item element of row number i (0-based), the identifiers
\* drawn so far being n
BuildItem(row, i, n) ==
    LET answers     == RowAnswers(row)
        answer_ids  == [k \in 1..Len(answers) |-> NewId(n + 1 + k)]
        correct_idx == RowCorrectIdx(row)
    IN  [ ident  |-> NewId(n + 1),
          title  |-> Get(row, "Title", <<"Question", " ">> \o IntStr(i + 1)),
          fields |-> << [label |-> <<"question_type">>,
                         entry |-> IF RowType(row) = <<"TF">>
                                   THEN <<"true_false_question">>
                                   ELSE <<"multiple_choice_question">>],
                        [label |-> <<"points_possible">>,
                         entry |-> FloatStr(RowPoints(row))] >>,
          mattext |-> <<"<", "div", ">", "<", "p", ">">>
                          \o (IF Get(row, "Question Body", <<>>) = None
                              THEN <<"None">> ELSE Get(row, "Question Body", <<>>))
                          \o <<"<", "/", "p", ">", "<", "/", "div", ">">>,
          labels |-> [k \in 1..Len(answers) |->
                         [ident |-> answer_ids[k], mattext |-> answers[k]]],
          decvar |-> [maxvalue |-> <<"100">>, minvalue |-> <<"0">>, varname |-> <<"SCORE">>],
          conds  |-> IF correct_idx # 0 - 1
                     THEN << [varequal |-> answer_ids[correct_idx + 1],
                              action   |-> <<"Set">>,
                              varname  |-> <<"SCORE">>,
                              setvar   |-> <<"100">>] >>
                     ELSE <<>>,
          feedbacks |-> RowFeedbacks(row, answer_ids) ]

(***************************************************************************)
(* Specification of clean_text alone: every text over CleanSyms up to      *)
(* MaxTextLen symbols, or None, is cleaned, and the result cleaned again.  *)
(***************************************************************************)
MaxTextLen == 5

CleanSyms == {"<", ">", "&", "l", "t", ";", " "}

CleanInputs == UNION { [1..n -> CleanSyms] : n \in 0..MaxTextLen } \cup {None}

enc_vars == <<header, csv_rows, section, total_points, warnings, question_count, uuids,
              assessment_id, manifest_id, dependency_id>>

dec_vars == <<root, visited, out_rows, row_item, count, skipped_count, csv_file>>

clean_vars == <<raw_text, result, calls>>

call_vars == <<ret, conversions>>

vars == <<pc, enc_vars, zip, dec_vars, clean_vars, call_vars>>

\* the state of the parts of the program a specification does not run
EncIdle ==
    /\ header = CanonicalHeader
    /\ csv_rows = <<>> /\ section = <<>> /\ total_points = 0 /\ warnings = <<>>
    /\ question_count = 0 /\ uuids = 0
    /\ assessment_id = None /\ manifest_id = None /\ dependency_id = None

DecIdle ==
    /\ root = <<>> /\ visited = 0 /\ out_rows = <<>> /\ row_item = <<>>
    /\ count = 0 /\ skipped_count = 0 /\ csv_file = "absent"

CleanIdle == raw_text = None /\ result = None /\ calls = 0


InitClean ==
    /\ pc = "clean"
    /\ raw_text \in CleanInputs
    /\ result = None
    /\ calls = 0
    /\ EncIdle /\ DecIdle /\ zip = <<>>
    /\ ret = Pending /\ conversions = 0

\* result = clean_text(raw_text)
CleanCall ==
    /\ pc = "clean"
    /\ calls = 0
    /\ result' = clean_text(raw_text)
    /\ calls' = 1
    /\ UNCHANGED <<pc, raw_text, enc_vars, zip, dec_vars, call_vars>>

\* result = clean_text(result): the cleaned text is cleaned again
CleanAgain ==
    /\ pc = "clean"
    /\ calls = 1
    /\ raw_text' = result
    /\ result' = clean_text(result)
    /\ calls' = 2
    /\ UNCHANGED <<pc, enc_vars, zip, dec_vars, call_vars>>

NextClean == CleanCall \/ CleanAgain

SpecClean == InitClean /\ [][NextClean]_vars

(***************************************************************************)
(* The rows a CSV document of this model is made of                        *)
(***************************************************************************)
MkRow(type, points, body, correct, opts, fbs) ==
    [c \in Columns |->
        CASE c = "Type" -> type
          [] c = "Title" -> <<"Q">>
          [] c = "Points" -> points
          [] c = "Question Body" -> body
          [] c = "Correct Answer" -> correct
          [] ColIndex(c) \in 6..10 ->
                IF ColIndex(c) - 5 <= Len(opts) THEN opts[ColIndex(c) - 5] ELSE <<>>
          [] OTHER ->
                IF ColIndex(c) - 10 <= Len(fbs) THEN fbs[ColIndex(c) - 10] ELSE <<>>]

\* a line with only its first k cells: csv.DictReader fills the rest with None
Short(row, k) == [c \in Columns |-> IF ColIndex(c) > k THEN None ELSE row[c]]

MC == <<"MC">>
TF == <<"TF">>
XYZ == << <<"x">>, <<"y">>, <<"z">> >>

\* MC and TF rows with 1 to 5 options and a correct answer in range
CoreRows ==
    { MkRow(MC, <<"5">>, <<"b">>, <<"2">>, XYZ, <<>>),
      MkRow(MC, <<"2", ".", "5">>, <<"b">>, <<"1">>, << <<"x">> >>, <<>>),
      MkRow(<<"mc">>, <<"5">>, <<"b">>, <<"5">>,
            << <<"x">>, <<"y">>, <<"z">>, <<"v">>, <<"w">> >>, <<>>),
      MkRow(MC, <<"5">>, <<"b">>, <<"1">>, TRUE_FALSE, <<>>),
      MkRow(MC, <<"5">>, <<"b">>, <<"2">>, << <<"false">>, <<" ", "TRUE">> >>, <<>>),
      MkRow(MC, <<"5">>, <<"b">>, <<"3">>,
            << <<"x">>, <<>>, <<"z">>, <<>>, <<"w">> >>, <<>>),
      MkRow(MC, <<"5">>, <<"b">>, <<"1">>, << <<"x", "<", "y", ">", "z">>, <<"y">> >>, <<>>),
      MkRow(TF, <<"5">>, <<"b">>, <<"1">>, <<>>, <<>>),
      MkRow(TF, <<"0", ".", "2", "5">>, <<"b">>, <<"2">>, XYZ, <<>>) }

\* question bodies: plain text with "<", ">" and "&", surrounding blanks, a
\* control character, empty
BodyRows ==
    { MkRow(MC, <<"5">>, b, <<"1">>, XYZ, <<>>) :
        b \in { <<"x", " ", "<", " ", "y", " ", ">", " ", "z">>,
                <<"x", " ", "&", " ", "y">>,
                <<"&", "l", "t", ";">>,
                <<" ", "b", " ">>,
                <<"b", VerticalTab, "c">>,
                <<>> } }

\* Points cells that are no non-negative number, and zero
PointsRows ==
    { MkRow(MC, p, <<"b">>, <<"1">>, XYZ, <<>>) :
        p \in { <<"abc">>, <<>>, <<"-", "3">>, <<"0">> } }

\* Correct Answer cells that are missing, non-numeric or out of range
CorrectRows ==
    { MkRow(MC, <<"5">>, <<"b">>, c, XYZ, <<>>) :
        c \in { <<>>, <<"x">>, <<"0">>, <<"6">>, <<SuperscriptTwo>> } }
    \cup { MkRow(TF, <<"5">>, <<"b">>, <<"3">>, XYZ, <<>>) }

\* Type cells that are neither MC nor TF
TypeRows ==
    { MkRow(t, <<"5">>, <<"b">>, <<"1">>, XYZ, <<>>) : t \in { <<>>, <<"ESSAY">> } }

\* rows with feedback: general, correct, incorrect, then Feedback 1..5
FeedbackRows ==
    { MkRow(MC, <<"5">>, <<"b">>, <<"1">>, XYZ,
            << <<"g">>, <<"c">>, <<"n">>, <<"f1">>, <<>>, <<"f3">> >>),
      MkRow(MC, <<"5">>, <<"b">>, <<"1">>, << <<"x">>, <<>>, <<"z">> >>,
            << <<>>, <<>>, <<>>, <<>>, <<>>, <<"f3">> >>),
      MkRow(TF, <<"5">>, <<"b">>, <<"1">>, <<>>,
            << <<"g">>, <<>>, <<>>, <<"f1">>, <<"f2">> >>) }

\* lines shorter than the header
ShortRows ==
    { Short(MkRow(MC, <<"5">>, <<"b">>, <<"2">>, XYZ, <<>>), k) : k \in {1, 2, 4, 7, 12} }
    \cup { Short(MkRow(TF, <<"5">>, <<"b">>, <<"2">>, <<>>, <<>>), k) : k \in {3, 5} }

Rows ==
    CoreRows \cup BodyRows \cup PointsRows \cup CorrectRows \cup TypeRows
        \cup FeedbackRows \cup ShortRows

MaxRows == 2

\* the documents of the calls after the first one of a process are shorter
MaxLaterRows == 1

RowLimit == IF conversions <= 1 THEN MaxRows ELSE MaxLaterRows

(***************************************************************************)
(* The encoder create_qti_zip                                              *)
(***************************************************************************)
\* lines 11-29: the identifiers of the package and the empty accumulators
EncLocals ==
    /\ csv_rows = <<>>
    /\ section = <<>>
    /\ total_points = 0
    /\ warnings = <<>>
    /\ question_count = 0
    /\ assessment_id = NewId(1)
    /\ manifest_id = NewId(2)
    /\ dependency_id = NewId(3)
    /\ uuids = 3

\* lines 11-36 on a document whose header spells every column as fieldnames does
EncStart ==
    /\ header = CanonicalHeader
    /\ EncLocals

\* lines 38-142, one pass of the loop over a row that does not raise
EncodeRow ==
    /\ pc = "enc_loop"
    /\ Len(csv_rows) < RowLimit
    /\ \E line \in Rows :
        LET row  == ReadRow(header, line)
            i    == Len(csv_rows)
            item == BuildItem(row, i, uuids)
        IN  /\ RowRaises(row) = ""
            /\ csv_rows' = Append(csv_rows, line)
            /\ total_points' = total_points + RowPoints(row)
            /\ warnings' = warnings \o RowWarnings(row, i + 2)
            /\ section' = Append(section, item)
            /\ question_count' = question_count + 1
            /\ uuids' = uuids + 1 + Len(item.labels)
    /\ UNCHANGED <<pc, header, assessment_id, manifest_id, dependency_id, zip, dec_vars,
                   clean_vars, call_vars>>

\* lines 38-80 and 144-146: a row that raises ends the conversion with
\* "CRITICAL ERROR"; what the row changed before it raised stays changed
EncodeRowRaises ==
    /\ pc = "enc_loop"
    /\ Len(csv_rows) < RowLimit
    /\ \E line \in Rows :
        LET row == ReadRow(header, line)
            i   == Len(csv_rows)
            at  == RowRaises(row)
        IN  /\ at # ""
            /\ csv_rows' = Append(csv_rows, line)
            /\ total_points' = IF at \in {"options", "correct", "int"}
                               THEN total_points + RowPoints(row)
                               ELSE total_points
            /\ warnings' = warnings \o
                   (IF at \in {"options", "correct", "int"}
                    THEN PointsWarnings(row, i + 2) ELSE <<>>)
                   \o (IF at \in {"correct", "int"} THEN OptionWarnings(row, i + 2) ELSE <<>>)
    /\ pc' = "enc_failed"
    /\ ret' = None
    /\ UNCHANGED <<header, section, question_count, uuids, assessment_id, manifest_id,
                   dependency_id, zip, dec_vars, clean_vars, conversions>>

\* the archive entry paths, lines 190-192
ManifestPath == <<"imsmanifest", ".xml">>

AssessmentPath(aid) == aid \o <<"/">> \o aid \o <<".xml">>

MetaPath(aid) == aid \o <<"/", "assessment_meta", ".xml">>

\* Manifest whose dependency names the manifest instead of the metadata resource
ManifestWrongDependency ==
    [ identifier |-> manifest_id,
      resources  |->
        << [ identifier |-> <<"res_">> \o assessment_id,
             type       |-> <<"imsqti_xmlv1p2">>,
             href       |-> NoElem,
             file       |-> assessment_id \o <<"/">> \o assessment_id \o <<".xml">>,
             dependency |-> manifest_id ],
           [ identifier |-> dependency_id,
             type       |-> <<"associatedcontent/imscc_xmlv1p1/learning-application-resource">>,
             href       |-> assessment_id \o <<"/", "assessment_meta", ".xml">>,
             file       |-> assessment_id \o <<"/", "assessment_meta", ".xml">>,
             dependency |-> NoElem ] >> ]

\* lines 158-172: the manifest
Manifest ==
    [ identifier |-> manifest_id,
      resources  |->
        << [ identifier |-> <<"res_">> \o assessment_id,
             type       |-> <<"imsqti_xmlv1p2">>,
             href       |-> NoElem,
             file       |-> assessment_id \o <<"/">> \o assessment_id \o <<".xml">>,
             dependency |-> dependency_id ],
           [ identifier |-> dependency_id,
             type       |-> <<"associatedcontent/imscc_xmlv1p1/learning-application-resource">>,
             href       |-> assessment_id \o <<"/", "assessment_meta", ".xml">>,
             file       |-> assessment_id \o <<"/", "assessment_meta", ".xml">>,
             dependency |-> NoElem ] >> ]

\* MetaDoc writing the points of the last item instead of the total
MetaDocLastItem ==
    [ identifier      |-> assessment_id,
      title           |-> <<"quiz">>,
      points_possible |-> IF section = <<>> THEN FloatStr(0)
                          ELSE section[Len(section)].fields[2].entry,
      quiz_type       |-> <<"assignment">> ]

\* lines 175-181: the metadata document
MetaDoc ==
    [ identifier      |-> assessment_id,
      title           |-> <<"quiz">>,
      points_possible |-> FloatStr(total_points),
      quiz_type       |-> <<"assignment">> ]

\* ET.tostring of an item: every text and attribute value escaped
SerializeItem(item) ==
    [ ident  |-> XmlEscape(item.ident),
      title  |-> XmlEscape(item.title),
      fields |-> [k \in 1..Len(item.fields) |->
                    [label |-> XmlEscape(item.fields[k].label),
                     entry |-> XmlEscape(item.fields[k].entry)]],
      mattext |-> XmlEscape(item.mattext),
      labels |-> [k \in 1..Len(item.labels) |->
                    [ident   |-> XmlEscape(item.labels[k].ident),
                     mattext |-> XmlEscape(item.labels[k].mattext)]],
      decvar |-> item.decvar,
      conds  |-> [k \in 1..Len(item.conds) |->
                    [varequal |-> XmlEscape(item.conds[k].varequal),
                     action   |-> item.conds[k].action,
                     varname  |-> item.conds[k].varname,
                     setvar   |-> XmlEscape(item.conds[k].setvar)]],
      feedbacks |-> [k \in 1..Len(item.feedbacks) |->
                    [ident   |-> XmlEscape(item.feedbacks[k].ident),
                     mattext |-> XmlEscape(item.feedbacks[k].mattext),
                     attrib  |-> XmlEscape(item.feedbacks[k].attrib)]] ]

\* line 186: minidom.parseString raises on a document in which a text or an
\* attribute value holds a character XML does not allow
HasInvalidXmlChar(s) == s # None /\ \E k \in 1..Len(s) : s[k] = VerticalTab

PrettifyRaises(items) ==
    \E k \in 1..Len(items) :
        \/ HasInvalidXmlChar(items[k].title)
        \/ HasInvalidXmlChar(items[k].mattext)
        \/ \E j \in 1..Len(items[k].labels) : HasInvalidXmlChar(items[k].labels[j].mattext)
        \/ \E j \in 1..Len(items[k].feedbacks) : HasInvalidXmlChar(items[k].feedbacks[j].attrib)

\* lines 19-25 and 185: the assessment document
AssessmentDoc ==
    [ ident |-> assessment_id,
      title |-> <<"quiz">>,
      items |-> [k \in 1..Len(section) |-> SerializeItem(section[k])] ]

\* lines 148-199: the reader is exhausted; the manifest and the metadata are
\* built and the three documents are written to the archive
EncodeEnd ==
    /\ pc = "enc_loop"
    /\ ~PrettifyRaises(section)
    /\ zip' = << [name |-> ManifestPath, doc |-> Manifest],
                 [name |-> AssessmentPath(assessment_id), doc |-> AssessmentDoc],
                 [name |-> MetaPath(assessment_id), doc |-> MetaDoc] >>
    /\ pc' = "enc_done"
    /\ ret' = None
    /\ UNCHANGED <<enc_vars, dec_vars, clean_vars, conversions>>

\* lines 148-199 when prettify raises on the assessment document: the archive
\* has been created and the manifest written to it; leaving the with block
\* closes it, and "Error writing zip file" is printed
EncodeEndRaises ==
    /\ pc = "enc_loop"
    /\ PrettifyRaises(section)
    /\ zip' = << [name |-> ManifestPath, doc |-> Manifest] >>
    /\ pc' = "enc_write_failed"
    /\ ret' = None
    /\ UNCHANGED <<enc_vars, dec_vars, clean_vars, conversions>>

(***************************************************************************)
(* The decoder convert_qti_to_csv                                          *)
(***************************************************************************)
\* ET.parse: the .text of an element (NoElem where the element is absent) and
\* the value of an attribute (None where the attribute is absent)
ParseText(s) == IF s = NoElem THEN NoElem ELSE XmlText(s)

ParseAttr(s) == IF s = NoElem THEN None ELSE XmlUnescapeFrom(s, 1)

ParseItem(x) ==
    [ ident  |-> ParseAttr(x.ident),
      title  |-> ParseAttr(x.title),
      fields |-> [k \in 1..Len(x.fields) |->
                    [label |-> ParseText(x.fields[k].label),
                     entry |-> ParseText(x.fields[k].entry)]],
      mattext |-> ParseText(x.mattext),
      labels |-> [k \in 1..Len(x.labels) |->
                    [ident   |-> ParseAttr(x.labels[k].ident),
                     mattext |-> ParseText(x.labels[k].mattext)]],
      conds  |-> [k \in 1..Len(x.conds) |->
                    [varequal |-> ParseText(x.conds[k].varequal),
                     action   |-> ParseAttr(x.conds[k].action),
                     varname  |-> ParseAttr(x.conds[k].varname),
                     setvar   |-> ParseText(x.conds[k].setvar)]],
      feedbacks |-> [k \in 1..Len(x.feedbacks) |->
                    [ident   |-> ParseAttr(x.feedbacks[k].ident),
                     mattext |-> ParseText(x.feedbacks[k].mattext)]] ]

\* lines 23-24: the entries that may be the assessment document
Contains(name, word) == \E k \in 1..Len(name) : name[k] = word

qti_files(z) ==
    SelectSeq(z, LAMBDA e : /\ e.name # <<>> /\ e.name[Len(e.name)] = ".xml"
                            /\ ~Contains(e.name, "imsmanifest")
                            /\ ~Contains(e.name, "assessment_meta"))

\* elem.text if elem is not None else default
TextOr(elem, default) == IF elem = NoElem THEN default ELSE elem

\* lines 64-69: the question_type the metadata fields leave in q_type_metadata
RECURSIVE TypeMetadata(_, _)
TypeMetadata(fields, acc) ==
    IF fields = <<>> THEN acc
    ELSE TypeMetadata(Tail(fields),
                      IF Head(fields).label = <<"question_type">>
                      THEN TextOr(Head(fields).entry, <<>>)
                      ELSE acc)

q_type_metadata(item) == TypeMetadata(item.fields, <<>>)

\* lines 72-77: what the metadata fields leave in row['Points']
RECURSIVE PointsCell(_, _)
PointsCell(fields, acc) ==
    IF fields = <<>> THEN acc
    ELSE PointsCell(Tail(fields),
                    IF Head(fields).label = <<"points_possible">>
                    THEN LET pf == ParseFloat(TextOr(Head(fields).entry, <<"0">>))
                         IN  IF pf.ok THEN Fmt2(pf.val) ELSE <<"0", ".", "0", "0">>
                    ELSE acc)

\* line 75: float(None) is a TypeError, which `except ValueError` lets through
ItemRaises(item) ==
    \E k \in 1..Len(item.fields) :
        /\ item.fields[k].label = <<"points_possible">>
        /\ item.fields[k].entry = None

\* lines 80-83
is_supported_type(item) ==
    q_type_metadata(item) \in { <<"multiple_choice_question">>, <<"true_false_question">>,
                                <<"multiple_response_question">>, <<>> }

\* lines 96-107: the labels retained, at most the first five
Retained(item) == SubSeq(item.labels, 1, IF Len(item.labels) < MaxOptions
                                         THEN Len(item.labels) ELSE MaxOptions)

answer_ids(item) == [k \in 1..Len(Retained(item)) |-> Retained(item)[k].ident]

answer_texts(item) ==
    [k \in 1..Len(Retained(item)) |->
        IF Retained(item)[k].mattext = NoElem THEN <<>>
        ELSE clean_text(Retained(item)[k].mattext)]

\* DetectType trusting the stored question_type instead of the option texts
DetectTypeFromMetadata(item) ==
    IF q_type_metadata(item) = <<"true_false_question">> THEN <<"TF">> ELSE <<"MC">>

\* lines 111-115
DetectType(item) ==
    LET lower_answers == [k \in 1..Len(answer_texts(item)) |-> Lower(answer_texts(item)[k])]
        Has(t)        == \E k \in 1..Len(lower_answers) : lower_answers[k] = t
    IN  IF Len(answer_texts(item)) = 2 /\ Has(<<"true">>) /\ Has(<<"false">>)
        THEN <<"TF">> ELSE <<"MC">>

\* lines 118-126: the identifier of the first rule that sets the score to 100
RECURSIVE CorrectId(_)
CorrectId(conds) ==
    IF conds = <<>> THEN None
    ELSE LET cond == Head(conds)
         IN  IF /\ cond.setvar # NoElem /\ cond.action = <<"Set">>
                /\ cond.setvar = <<"100">>
                /\ cond.varequal # NoElem
             THEN cond.varequal
             ELSE CorrectId(Tail(conds))

\* CorrectCell without the + 1 of line 129: the 0-based index is written
CorrectCellZeroBased(item) ==
    LET correct_id == CorrectId(item.conds)
        ids        == answer_ids(item)
        hits       == { k \in 1..Len(ids) : ids[k] = correct_id }
    IN  IF hits = {} THEN <<>> ELSE IntStr(Min(hits) - 1)

\* lines 128-129
CorrectCell(item) ==
    LET correct_id == CorrectId(item.conds)
        ids        == answer_ids(item)
        hits       == { k \in 1..Len(ids) : ids[k] = correct_id }
    IN  IF hits = {} THEN <<>> ELSE IntStr(Min(hits))

\* lines 132-136: feedbacks[key], the last block with that ident winning;
\* NoElem when no block has it
RECURSIVE FeedbackOf(_, _)
FeedbackOf(fbs, key) ==
    IF fbs = <<>> THEN NoElem
    ELSE LET fb == fbs[Len(fbs)]
         IN  IF fb.ident = key
             THEN (IF fb.mattext = NoElem THEN <<>> ELSE clean_text(fb.mattext))
             ELSE FeedbackOf(SubSeq(fbs, 1, Len(fbs) - 1), key)

\* f"{aid}_fb"
FbKey(aid) == (IF aid = None THEN <<"None">> ELSE aid) \o <<"_fb">>

\* lines 58 and 89-145: the row written for an item
DecodeRow(item) ==
    [c \in Columns |->
        CASE c = "Type" -> DetectType(item)
          [] c = "Title" -> IF item.title = None THEN <<"Question">> ELSE item.title
          [] c = "Points" -> PointsCell(item.fields, <<>>)
          [] c = "Question Body" ->
                IF item.mattext = NoElem THEN <<>> ELSE clean_text(item.mattext)
          [] c = "Correct Answer" -> CorrectCell(item)
          [] ColIndex(c) \in 6..10 ->
                IF ColIndex(c) - 5 <= Len(answer_texts(item))
                THEN answer_texts(item)[ColIndex(c) - 5] ELSE <<>>
          [] c = "General Feedback" -> TextOr(FeedbackOf(item.feedbacks, <<"general_fb">>), <<>>)
          [] c = "Correct Feedback" -> TextOr(FeedbackOf(item.feedbacks, <<"correct_fb">>), <<>>)
          [] c = "Incorrect Feedback" ->
                TextOr(FeedbackOf(item.feedbacks, <<"general_incorrect_fb">>), <<>>)
          [] OTHER ->
                IF ColIndex(c) - 13 <= Len(answer_ids(item))
                THEN TextOr(FeedbackOf(item.feedbacks,
                                       FbKey(answer_ids(item)[ColIndex(c) - 13])), <<>>)
                ELSE <<>>]

\* lines 20-55: the archive is opened, the assessment document found and
\* parsed, the CSV opened and its header written
DecodeOpen ==
    /\ pc \in {"enc_done", "zip_given"}
    /\ qti_files(zip) # <<>>
    /\ root' = [k \in 1..Len(qti_files(zip)[1].doc.items) |->
                   ParseItem(qti_files(zip)[1].doc.items[k])]
    /\ visited' = 0
    /\ out_rows' = <<>>
    /\ row_item' = <<>>
    /\ count' = 0
    /\ skipped_count' = 0
    /\ csv_file' = "open"
    /\ pc' = "dec_loop"
    /\ ret' = Pending
    /\ UNCHANGED <<enc_vars, zip, clean_vars, conversions>>

\* lines 20-28: the archive holds no assessment document; "QTI XML file not
\* found" is printed and the call returns before the CSV is opened
DecodeOpenFails ==
    /\ pc \in {"enc_done", "zip_given"}
    /\ qti_files(zip) = <<>>
    /\ pc' = "dec_failed"
    /\ ret' = None
    /\ UNCHANGED <<enc_vars, zip, dec_vars, clean_vars, conversions>>

\* lines 57-148, one pass of the loop over an item that is written as a row
DecodeItem ==
    /\ pc = "dec_loop"
    /\ visited < Len(root)
    /\ LET item == root[visited + 1]
       IN  /\ ~ItemRaises(item)
           /\ is_supported_type(item)
           /\ out_rows' = Append(out_rows, DecodeRow(item))
           /\ row_item' = Append(row_item, visited + 1)
           /\ count' = count + 1
    /\ visited' = visited + 1
    /\ UNCHANGED <<pc, enc_vars, zip, root, skipped_count, csv_file, clean_vars, call_vars>>

\* DecodeSkip without the skipped_count += 1 of line 85
DecodeSkipUncounted ==
    /\ pc = "dec_loop"
    /\ visited < Len(root)
    /\ LET item == root[visited + 1]
       IN  /\ ~ItemRaises(item)
           /\ ~is_supported_type(item)
    /\ visited' = visited + 1
    /\ UNCHANGED <<pc, enc_vars, zip, root, out_rows, row_item, count, skipped_count,
                   csv_file, clean_vars, call_vars>>

\* lines 57-86, one pass of the loop over an item of an unsupported type
DecodeSkip ==
    /\ pc = "dec_loop"
    /\ visited < Len(root)
    /\ LET item == root[visited + 1]
       IN  /\ ~ItemRaises(item)
           /\ ~is_supported_type(item)
    /\ skipped_count' = skipped_count + 1
    /\ visited' = visited + 1
    /\ UNCHANGED <<pc, enc_vars, zip, root, out_rows, row_item, count, csv_file,
                   clean_vars, call_vars>>

\* lines 57-77 and 158-160: an item that raises ends the conversion with "An
\* unexpected error occurred"; leaving the with block closes the CSV, which
\* keeps its header and the rows written so far
DecodeItemRaises ==
    /\ pc = "dec_loop"
    /\ visited < Len(root)
    /\ ItemRaises(root[visited + 1])
    /\ visited' = visited + 1
    /\ pc' = "dec_failed"
    /\ csv_file' = "closed"
    /\ ret' = None
    /\ UNCHANGED <<enc_vars, zip, root, out_rows, row_item, count, skipped_count,
                   clean_vars, conversions>>

\* lines 150-152: the loop is over and the summary is printed
DecodeEnd ==
    /\ pc = "dec_loop"
    /\ visited = Len(root)
    /\ pc' = "dec_done"
    /\ csv_file' = "closed"
    /\ ret' = None
    /\ UNCHANGED <<enc_vars, zip, root, visited, out_rows, row_item, count, skipped_count,
                   clean_vars, conversions>>

(***************************************************************************)
(* Spec: a CSV document is encoded and the package it gives is decoded.    *)
(***************************************************************************)
Init ==
    /\ pc = "enc_loop"
    /\ EncStart
    /\ zip = <<>>
    /\ DecIdle
    /\ CleanIdle
    /\ ret = Pending
    /\ conversions = 1

Next ==
    \/ EncodeRow
    \/ EncodeRowRaises
    \/ EncodeEnd
    \/ EncodeEndRaises
    \/ DecodeOpen
    \/ DecodeItem
    \/ DecodeEnd

Spec == Init /\ [][Next]_vars

(***************************************************************************)
(* SpecHeader: a CSV document whose header line spells the columns in its  *)
(* own way is encoded.                                                     *)
(***************************************************************************)
\* the header with every name between blanks
PaddedHeader ==
    [k \in 1..Len(fieldnames) |->
        [col |-> fieldnames[k], name |-> <<" ", fieldnames[k], " ">>]]

\* the header with the names of the columns in S in lower case, the other
\* names as fieldnames has them
LowerCaseHeader(S) ==
    [k \in 1..Len(fieldnames) |->
        [col  |-> fieldnames[k],
         name |-> IF fieldnames[k] \in S THEN Lower(<<fieldnames[k]>>)
                  ELSE <<fieldnames[k]>>]]

\* header lines: as fieldnames; every name between blanks; Type, or Correct
\* Answer, in lower case; no Points column; one more column the code does not
\* know
Headers ==
    { CanonicalHeader,
      PaddedHeader,
      LowerCaseHeader({"Type"}),
      LowerCaseHeader({"Correct Answer"}),
      SelectSeq(CanonicalHeader, LAMBDA h : h.col # "Points"),
      Append(CanonicalHeader, [col |-> "Notes", name |-> <<"Notes">>]) }

InitHeader ==
    /\ pc = "enc_loop"
    /\ header \in Headers
    /\ EncLocals
    /\ zip = <<>>
    /\ DecIdle
    /\ CleanIdle
    /\ ret = Pending
    /\ conversions = 1

NextHeader ==
    \/ EncodeRow
    \/ EncodeRowRaises
    \/ EncodeEnd
    \/ EncodeEndRaises

SpecHeader == InitHeader /\ [][NextHeader]_vars

(***************************************************************************)
(* SpecReuse: the process converts again. After a conversion has returned, *)
(* create_qti_zip is called on another document, with another destination, *)
(* and its package may be decoded in turn.                                 *)
(***************************************************************************)
MaxCalls == 2

Returned == {"enc_done", "enc_failed", "enc_write_failed", "dec_done", "dec_failed"}

\* EncodeAgain with total_points, warnings and question_count kept across
\* calls, as process-wide accumulators would be
EncodeAgainKeepsTotals ==
    /\ pc \in Returned
    /\ conversions < MaxCalls
    /\ conversions' = conversions + 1
    /\ pc' = "enc_loop"
    /\ ret' = Pending
    /\ csv_rows' = <<>>
    /\ section' = <<>>
    /\ assessment_id' = NewId(uuids + 1)
    /\ manifest_id' = NewId(uuids + 2)
    /\ dependency_id' = NewId(uuids + 3)
    /\ uuids' = uuids + 3
    /\ zip' = <<>>
    /\ root' = <<>> /\ visited' = 0 /\ out_rows' = <<>> /\ row_item' = <<>>
    /\ count' = 0 /\ skipped_count' = 0 /\ csv_file' = "absent"
    /\ UNCHANGED <<header, total_points, warnings, question_count, clean_vars>>

\* lines 10-36 of a call that follows a call that has returned: three more
\* uuid4 values are drawn, the section, the total, the warnings list and the
\* question count are new locals, and the locals of the calls that returned
\* are gone
EncodeAgain ==
    /\ pc \in Returned
    /\ conversions < MaxCalls
    /\ conversions' = conversions + 1
    /\ pc' = "enc_loop"
    /\ ret' = Pending
    /\ csv_rows' = <<>>
    /\ section' = <<>>
    /\ total_points' = 0
    /\ warnings' = <<>>
    /\ question_count' = 0
    /\ assessment_id' = NewId(uuids + 1)
    /\ manifest_id' = NewId(uuids + 2)
    /\ dependency_id' = NewId(uuids + 3)
    /\ uuids' = uuids + 3
    /\ zip' = <<>>
    /\ root' = <<>> /\ visited' = 0 /\ out_rows' = <<>> /\ row_item' = <<>>
    /\ count' = 0 /\ skipped_count' = 0 /\ csv_file' = "absent"
    /\ UNCHANGED <<header, clean_vars>>

NextReuse ==
    \/ EncodeRow
    \/ EncodeRowRaises
    \/ EncodeEnd
    \/ EncodeEndRaises
    \/ DecodeOpen
    \/ DecodeItem
    \/ DecodeEnd
    \/ EncodeAgain

SpecReuse == Init /\ [][NextReuse]_vars

(***************************************************************************)
(* SpecDecode: a package that some other tool wrote is decoded.            *)
(***************************************************************************)
\* an item element as serialized in a package: its question_type and
\* points_possible fields (<<>>: no such field, <<e>>: a field whose fieldentry
\* is e), its option texts, the position of the option its scoring rule names
\* (0: no rule)
ForeignItem(qtype, points, texts, correct) ==
    [ ident  |-> <<"it">>,
      title  |-> <<"T">>,
      fields |-> [k \in 1..Len(qtype) |->
                    [label |-> <<"question_type">>, entry |-> qtype[k]]]
                 \o [k \in 1..Len(points) |->
                    [label |-> <<"points_possible">>, entry |-> points[k]]],
      mattext |-> XmlEscape(<<"<", "p", ">", "b", "<", "/", "p", ">">>),
      labels |-> [k \in 1..Len(texts) |->
                    [ident |-> <<"a">> \o IntStr(k), mattext |-> XmlEscape(texts[k])]],
      conds  |-> IF correct = 0 THEN <<>>
                 ELSE << [varequal |-> <<"a">> \o IntStr(correct),
                          action   |-> <<"Set">>,
                          varname  |-> <<"SCORE">>,
                          setvar   |-> <<"100">>] >>,
      feedbacks |-> << [ident |-> <<"general_fb">>, mattext |-> <<"g">>] >> ]

\* a respcondition as serialized: its varequal names the option at position
\* pos (0: it has no varequal), its setvar has the given action, varname and text
Rule(pos, action, varname, score) ==
    [ varequal |-> IF pos = 0 THEN NoElem ELSE <<"a">> \o IntStr(pos),
      action   |-> <<action>>,
      varname  |-> <<varname>>,
      setvar   |-> <<score>> ]

\* a multiple-choice item with the given option texts and respconditions
RuleItem(texts, rules) ==
    [ ForeignItem(<< <<"multiple_choice_question">> >>, << <<"5", ".", "0">> >>, texts, 0)
        EXCEPT !.conds = rules ]

SixTexts == << <<"x">>, <<"y">>, <<"z">>, <<"u">>, <<"v">>, <<"w">> >>

\* items whose scoring rules are not the single rule the encoder writes: a rule
\* for another outcome variable first; a sixth option, correct or not; a rule
\* that sets 50, that has no varequal, that adds, or that names no option,
\* before the rule that counts; and a correct option after a blank one
RuleItems ==
    { RuleItem(XYZ, << Rule(2, "Set", "BONUS", "100"), Rule(1, "Set", "SCORE", "100") >>),
      RuleItem(SixTexts, << Rule(6, "Set", "SCORE", "100") >>),
      RuleItem(SixTexts, << Rule(5, "Set", "SCORE", "100") >>),
      RuleItem(XYZ, << Rule(2, "Set", "SCORE", "50"), Rule(3, "Set", "SCORE", "100") >>),
      RuleItem(XYZ, << Rule(0, "Set", "SCORE", "100"), Rule(2, "Set", "SCORE", "100") >>),
      RuleItem(XYZ, << Rule(2, "Add", "SCORE", "100"), Rule(3, "Set", "SCORE", "100") >>),
      RuleItem(XYZ, << Rule(9, "Set", "SCORE", "100"), Rule(2, "Set", "SCORE", "100") >>),
      RuleItem(<< <<"x">>, <<>>, <<"z">> >>, << Rule(3, "Set", "SCORE", "100") >>) }

\* the question_type field: absent, without a fieldentry, with an empty
\* fieldentry, or with a declared type
ForeignTypes ==
    { <<>>, <<NoElem>>, << <<>> >>,
      << <<"multiple_choice_question">> >>,
      << <<"true_false_question">> >>,
      << <<"multiple_response_question">> >>,
      << <<"essay_question">> >> }

ForeignTexts ==
    { << <<"True">>, <<"False">> >>,
      << <<"<", "b", ">", "FALSE", "<", "/", "b", ">">>, <<" ", "true">> >>,
      << <<"True">>, <<"True">> >>,
      << <<"x">>, <<"y">> >>,
      << <<"True">>, <<"False">>, <<"x">> >>,
      << <<"True">> >> }

ForeignItems ==
    { ForeignItem(q, << <<"5", ".", "0">> >>, t, 1) :
        q \in ForeignTypes, t \in ForeignTexts }
    \cup { ForeignItem(<< <<"multiple_choice_question">> >>, p, << <<"x">>, <<"y">> >>, 2) :
            p \in { <<>>, <<NoElem>>, << <<>> >>, << <<"abc">> >> } }
    \cup RuleItems

MaxItems == 2

ForeignDocs == UNION { [1..n -> ForeignItems] : n \in 0..MaxItems }

InitDecode ==
    /\ pc = "zip_given"
    /\ \/ zip = << [name |-> ManifestPath, doc |-> [identifier |-> <<"m">>]] >>
       \/ \E items \in ForeignDocs :
            zip = << [name |-> ManifestPath, doc |-> [identifier |-> <<"m">>]],
                     [name |-> AssessmentPath(<<"A">>),
                      doc  |-> [ident |-> <<"A">>, title |-> <<"quiz">>, items |-> items]] >>
    /\ EncIdle
    /\ DecIdle
    /\ CleanIdle
    /\ ret = Pending
    /\ conversions = 1

NextDecode ==
    \/ DecodeOpen
    \/ DecodeOpenFails
    \/ DecodeItem
    \/ DecodeSkip
    \/ DecodeItemRaises
    \/ DecodeEnd

SpecDecode == InitDecode /\ [][NextDecode]_vars

(***************************************************************************)
(* SpecConvert: either conversion. A CSV document is encoded and its       *)
(* package decoded, or a package that some other tool wrote is decoded.    *)
(***************************************************************************)
InitConvert == Init \/ InitDecode

NextConvert ==
    \/ EncodeRow
    \/ EncodeRowRaises
    \/ EncodeEnd
    \/ EncodeEndRaises
    \/ DecodeOpen
    \/ DecodeOpenFails
    \/ DecodeItem
    \/ DecodeSkip
    \/ DecodeItemRaises
    \/ DecodeEnd

SpecConvert == InitConvert /\ [][NextConvert]_vars

(***************************************************************************)
(* Properties                                                              *)
(***************************************************************************)
Range(f) == { f[k] : k \in DOMAIN f }

RECURSIVE SumSeq(_)
SumSeq(q) == IF q = <<>> THEN 0 ELSE Head(q) + SumSeq(Tail(q))

\* the encoder has not failed: every row read so far gave the item at its position
Encoding == pc \in {"enc_loop", "enc_done", "dec_loop", "dec_done"} /\ assessment_id # None

\* the non-empty Option cells of a row, trimmed, in column order
OptionCells(row) ==
    SelectSeq([x \in 1..MaxOptions |-> IF row[OptionCol(x)] = None THEN <<>>
                                       ELSE Strip(row[OptionCol(x)])],
              LAMBDA v : v # <<>>)

\* the Option 1..5 cells of a decoded row up to the last non-empty one
OptionsOut(out) ==
    LET filled == { x \in 1..MaxOptions : out[OptionCol(x)] # <<>> }
        n      == IF filled = {} THEN 0 ELSE CHOOSE x \in filled : \A y \in filled : y <= x
    IN  [x \in 1..n |-> out[OptionCol(x)]]

TypeCell(row) == IF row["Type"] = None THEN None ELSE Strip(Upper(row["Type"]))

NumberCell(cell) == cell # None /\ ParseFloat(cell).ok

SamePoints(row, out) ==
    /\ NumberCell(row["Points"])
    /\ NumberCell(out["Points"])
    /\ ParseFloat(row["Points"]).val = ParseFloat(out["Points"]).val

CorrectInRange(row, n) ==
    /\ row["Correct Answer"] # None
    /\ IsDecimalStr(Strip(row["Correct Answer"]))
    /\ IntOf(Strip(row["Correct Answer"])) \in 1..n

SameCorrect(row, out) ==
    /\ IsDigitStr(out["Correct Answer"])
    /\ IntOf(out["Correct Answer"]) = IntOf(Strip(row["Correct Answer"]))

\* the precondition of the round trip as the claim states it
CoreRow(row) ==
    /\ TypeCell(row) \in {MC, TF}
    /\ Len(OptionCells(row)) \in 1..MaxOptions
    /\ CorrectInRange(row, Len(OptionCells(row)))

CoreSame(row, out) ==
    /\ out["Type"] = TypeCell(row)
    /\ SamePoints(row, out)
    /\ OptionsOut(out) = OptionCells(row)
    /\ SameCorrect(row, out)

LooksTrueFalse(opts) ==
    Len(opts) = 2 /\ { Lower(opts[1]), Lower(opts[2]) } = { <<"true">>, <<"false">> }

\* an MC row the round trip keeps: numeric Points, 1 to 5 options that
\* clean_text leaves as they are and that are not the pair true/false
PlainMCRow(row) ==
    /\ TypeCell(row) = MC
    /\ NumberCell(row["Points"])
    /\ Len(OptionCells(row)) \in 1..MaxOptions
    /\ \A x \in 1..Len(OptionCells(row)) : clean_text(OptionCells(row)[x]) = OptionCells(row)[x]
    /\ ~LooksTrueFalse(OptionCells(row))
    /\ CorrectInRange(row, Len(OptionCells(row)))

TFRow(row) ==
    /\ TypeCell(row) = TF
    /\ NumberCell(row["Points"])
    /\ CorrectInRange(row, 2)

FeedbackCols == { fieldnames[k] : k \in 11..13 }

\* C2 as stated: every non-empty General, Correct and Incorrect Feedback, and
\* every non-empty Feedback k of an option k that exists, is decoded as the
\* same text in the same column
C2_FeedbackRoundTrip ==
    pc = "dec_done" =>
        \A k \in 1..Len(csv_rows) :
            LET row == csv_rows[k]
                out == out_rows[k]
            IN  /\ \A c \in FeedbackCols : Truthy(row[c]) => out[c] = Strip(row[c])
                /\ \A x \in 1..Len(RowAnswers(row)) :
                     Truthy(row[FeedbackCol(x)]) =>
                        out[FeedbackCol(x)] = Strip(row[FeedbackCol(x)])

\* C3 as stated: the Question Body of every row is decoded as the same text,
\* up to surrounding whitespace
C3_BodyRoundTrip ==
    pc = "dec_done" =>
        \A k \in 1..Len(csv_rows) :
            csv_rows[k]["Question Body"] # None =>
                Strip(out_rows[k]["Question Body"]) = Strip(csv_rows[k]["Question Body"])

\* C4 as stated: no row ends the encode; after every row read the encoder is
\* still running or has produced the package
C4_NoRowAborts == pc # "enc_failed"

\* C5: every row the decoder writes has Type TF exactly when its item has two
\* options whose cleaned, lower-cased texts are the set {true, false}, and Type
\* MC otherwise, whatever question_type the item declares.
C5_TypeRedetection ==
    \A j \in 1..Len(out_rows) :
        LET item  == root[row_item[j]]
            n     == IF Len(item.labels) < MaxOptions THEN Len(item.labels) ELSE MaxOptions
            texts == [k \in 1..n |-> Lower(clean_text(item.labels[k].mattext))]
            tf    == n = 2 /\ { texts[1], texts[2] } = { <<"true">>, <<"false">> }
        IN  out_rows[j]["Type"] = IF tf THEN TF ELSE MC

\* C5 witness: a written row of Type TF whose item declares
\* multiple_choice_question, and one of Type MC whose item declares
\* true_false_question
C5_Witness ==
    /\ \E j \in 1..Len(out_rows) :
        /\ out_rows[j]["Type"] = TF
        /\ q_type_metadata(root[row_item[j]]) = <<"multiple_choice_question">>
    /\ \E j \in 1..Len(out_rows) :
        /\ out_rows[j]["Type"] = MC
        /\ q_type_metadata(root[row_item[j]]) = <<"true_false_question">>

\* the question type an item declares: the text of the fieldentry of its last
\* question_type field, <<>> when it has no such field, no fieldentry or an
\* empty fieldentry
RECURSIVE Declared(_)
Declared(fields) ==
    IF fields = <<>> THEN <<>>
    ELSE LET f == fields[Len(fields)]
         IN  IF f.label = <<"question_type">>
             THEN (IF f.entry \in {NoElem, None} THEN <<>> ELSE f.entry)
             ELSE Declared(SubSeq(fields, 1, Len(fields) - 1))

\* C6 as stated: of the items visited, exactly those that declare a type other
\* than multiple_choice_question, true_false_question and
\* multiple_response_question are skipped; every other one, an item of
\* unspecified type included, is written as a row; and rows written plus items
\* skipped are the items visited
C6_ItemFiltering ==
    pc \in {"dec_loop", "dec_done"} =>
        /\ \A i \in 1..visited :
             (i \in Range(row_item)) <=>
                Declared(root[i].fields) \in
                    { <<>>, <<"multiple_choice_question">>, <<"true_false_question">>,
                      <<"multiple_response_question">> }
        /\ count + skipped_count = visited

\* C7 as stated: every encoded row whose Points is no non-negative number has
\* points 0 in its item and a warning, and adds 0 to the total
NonNegativeNumber(cell) == NumberCell(cell) /\ ParseFloat(cell).val >= 0

C7_PointsValidation ==
    Encoding =>
        /\ \A k \in 1..Len(section) :
             ~NonNegativeNumber(csv_rows[k]["Points"]) =>
                /\ section[k].fields[2].entry = <<"0", ".", "0">>
                /\ \E w \in 1..Len(warnings) :
                     warnings[w] = [row |-> k + 1, kind |-> "invalid_points"]
        /\ total_points =
             SumSeq([k \in 1..Len(section) |->
                        IF NonNegativeNumber(csv_rows[k]["Points"])
                        THEN ParseFloat(csv_rows[k]["Points"]).val ELSE 0])

\* the points_possible entry of a serialized item, as a number
ItemPoints(x) ==
    LET at == CHOOSE k \in 1..Len(x.fields) : x.fields[k].label = <<"points_possible">>
    IN  ParseFloat(XmlText(x.fields[at].entry)).val

\* C8: while the encoder runs, the running total is the sum of the points of
\* the items built so far, which is the sum of what the Points cells of the rows
\* read parse to (0 for a cell that is no number); and the points_possible of
\* the metadata document written is the sum of the points_possible of the items
\* of the assessment document written.
C8_TotalIsSum ==
    Encoding =>
        /\ total_points =
             SumSeq([k \in 1..Len(section) |-> ParseFloat(section[k].fields[2].entry).val])
        /\ total_points =
             SumSeq([k \in 1..Len(csv_rows) |->
                        IF NumberCell(csv_rows[k]["Points"])
                        THEN ParseFloat(csv_rows[k]["Points"]).val ELSE 0])
        /\ zip # <<>> =>
             ParseFloat(zip[3].doc.points_possible).val =
                SumSeq([k \in 1..Len(zip[2].doc.items) |-> ItemPoints(zip[2].doc.items[k])])

\* C8 witness: a package written for two rows of 5 and 2.5 points, whose
\* metadata document says 7.5
C8_Witness ==
    /\ pc = "enc_done"
    /\ Len(section) = 2
    /\ section[1].fields[2].entry = <<"5", ".", "0">>
    /\ section[2].fields[2].entry = <<"2", ".", "5">>
    /\ zip[3].doc.points_possible = <<"7", ".", "5">>

\* C9 as stated: cleaning a cleaned text changes nothing, and the clean text of
\* an empty or absent input is empty
C9_CleanIdempotent ==
    /\ calls = 2 => result = raw_text
    /\ (calls = 1 /\ raw_text \in {None, <<>>}) => result = <<>>

\* the identifiers of the options of the items of the section
RECURSIVE OptionIds(_)
OptionIds(items) ==
    IF items = <<>> THEN <<>>
    ELSE [k \in 1..Len(Head(items).labels) |-> Head(items).labels[k].ident]
             \o OptionIds(Tail(items))

\* every identifier generated so far
GeneratedIds ==
    <<assessment_id, manifest_id, dependency_id, <<"res_">> \o assessment_id>>
    \o [k \in 1..Len(section) |-> section[k].ident]
    \o OptionIds(section)

\* C10: the identifiers generated are pairwise distinct; in the package
\* written, the file of the manifest's QTI resource is the path of the
\* assessment entry, {assessmentId}/{assessmentId}.xml; its dependency names the
\* metadata resource, whose href and file are the path of the metadata entry,
\* {assessmentId}/assessment_meta.xml; and the metadata document's identifier is
\* the assessment's ident.
C10_IdentifierConsistency ==
    Encoding =>
        /\ \A a, b \in 1..Len(GeneratedIds) : a # b => GeneratedIds[a] # GeneratedIds[b]
        /\ zip # <<>> =>
             LET manifest == zip[1].doc
                 res_qti  == manifest.resources[1]
                 res_meta == manifest.resources[2]
                 aid      == zip[2].doc.ident
             IN  /\ zip[1].name = <<"imsmanifest", ".xml">>
                 /\ res_qti.file = zip[2].name
                 /\ zip[2].name = aid \o <<"/">> \o aid \o <<".xml">>
                 /\ res_qti.dependency = res_meta.identifier
                 /\ res_meta.href = zip[3].name
                 /\ res_meta.file = zip[3].name
                 /\ zip[3].name = aid \o <<"/", "assessment_meta", ".xml">>
                 /\ zip[3].doc.identifier = aid
                 /\ manifest.identifier \notin {aid, res_qti.identifier, res_meta.identifier}

\* C10 witness: a package written for two items that have options
C10_Witness ==
    /\ pc = "enc_done"
    /\ Len(zip) = 3
    /\ Len(section) = 2
    /\ \A k \in 1..2 : Len(section[k].labels) >= 2

\* the warnings of the row at position k (line k + 1 of the document), in order
WarningsOfRow(k) == SelectSeq(warnings, LAMBDA w : w.row = k + 1)

\* the Correct Answer cell of a line is missing or is no number
NoNumber(cell) == cell = None \/ ~IsDecimalStr(Strip(cell))

\* C11 as stated: every row read whose Correct Answer is missing or
\* non-numeric yields an item, never a failure; every item declares SCORE with
\* bounds 0 and 100 and has at most one scoring rule; it has one exactly when
\* the row's Correct Answer is a number in 1..(number of options of the item),
\* and then the rule names the identifier of the option at that position and
\* sets SCORE to 100.
C11_CorrectnessBinding ==
    \A k \in 1..Len(csv_rows) :
        /\ NoNumber(csv_rows[k]["Correct Answer"]) => k <= Len(section)
        /\ k <= Len(section) =>
             LET row  == csv_rows[k]
                 item == section[k]
             IN  /\ item.decvar.varname = <<"SCORE">>
                 /\ item.decvar.minvalue = <<"0">>
                 /\ item.decvar.maxvalue = <<"100">>
                 /\ Len(item.conds) <= 1
                 /\ Len(item.conds) = 1 <=> CorrectInRange(row, Len(item.labels))
                 /\ Len(item.conds) = 1 =>
                      /\ item.conds[1].varequal =
                            item.labels[IntOf(Strip(row["Correct Answer"]))].ident
                      /\ item.conds[1].varname = <<"SCORE">>
                      /\ item.conds[1].action = <<"Set">>
                      /\ item.conds[1].setvar = <<"100">>

\* C12 as stated: after a conversion that failed, no output is left at the
\* destination: a failed encode leaves no archive and a failed decode leaves
\* no CSV file.
C12_NoPartialOutput ==
    /\ pc \in {"enc_failed", "enc_write_failed"} => zip = <<>>
    /\ pc = "dec_failed" => csv_file = "absent"

\* C13 as stated: when a call has returned, what it handed to its caller says
\* whether the conversion succeeded or failed, and after a success it carries
\* the warnings of the encode or the skipped count of the decode.
C13_StructuredOutcome ==
    /\ pc \in {"enc_done", "dec_done"} =>
         /\ ret # None
         /\ ret.outcome = "succeeded"
         /\ pc = "enc_done" => ret.warnings = warnings
         /\ pc = "dec_done" => ret.skipped_count = skipped_count
    /\ pc \in {"enc_failed", "enc_write_failed", "dec_failed"} =>
         /\ ret # None
         /\ ret.outcome = "failed"

\* the option texts of an item, in order
LabelTexts(item) == [j \in 1..Len(item.labels) |-> item.labels[j].mattext]

\* C14 as stated: every encoded row whose Type is neither MC nor TF has a
\* warning, is declared multiple_choice_question, has one option per non-empty
\* Option cell, in column order, and has a scoring rule exactly when its
\* Correct Answer is in 1..(number of those options).
C14_UnknownTypeAsMC ==
    \A k \in 1..Len(section) :
        LET row  == csv_rows[k]
            item == section[k]
        IN  TypeCell(row) \notin {MC, TF} =>
                /\ \E w \in 1..Len(warnings) :
                     warnings[w] = [row |-> k + 1, kind |-> "unknown_type"]
                /\ item.fields[1].entry = <<"multiple_choice_question">>
                /\ LabelTexts(item) = OptionCells(row)
                /\ Len(item.conds) = 1 <=> CorrectInRange(row, Len(OptionCells(row)))

\* the warnings about the Correct Answer of the row at position k, in order
CorrectAnswerWarnings(k) ==
    SelectSeq(WarningsOfRow(k), LAMBDA w : w.kind \in {"missing_correct", "out_of_range"})

\* C15 as stated: an encoded row whose Correct Answer is missing or
\* non-numeric has no scoring rule and exactly one warning about it, of the
\* kind missing/non-numeric; one whose Correct Answer is a number outside
\* 1..(number of options), 0 included, has no scoring rule and exactly one
\* warning, of the kind out of range; one whose Correct Answer is inside the
\* range has neither warning.
C15_CorrectAnswerWarnings ==
    \A k \in 1..Len(section) :
        LET cell == csv_rows[k]["Correct Answer"]
            n    == Len(section[k].labels)
        IN  IF NoNumber(cell)
            THEN /\ section[k].conds = <<>>
                 /\ CorrectAnswerWarnings(k) = Warn(k + 1, "missing_correct")
            ELSE IF IntOf(Strip(cell)) \notin 1..n
            THEN /\ section[k].conds = <<>>
                 /\ CorrectAnswerWarnings(k) = Warn(k + 1, "out_of_range")
            ELSE CorrectAnswerWarnings(k) = <<>>

\* every name of the header is the name of its column up to letter case and
\* surrounding whitespace, or the name of a column the code does not know
SpelledUpToCase(hdr) ==
    \A k \in 1..Len(hdr) :
        hdr[k].col \in Columns => Lower(Strip(hdr[k].name)) = Lower(<<hdr[k].col>>)

\* a line as the claim reads it under a header: each recognized column the
\* header has, however spelled, with its cell, the absent ones empty
Intended(hdr, line) ==
    [c \in Columns |-> IF \E k \in 1..Len(hdr) : hdr[k].col = c THEN line[c] ELSE <<>>]

\* two items that differ at most in the identifiers drawn for them
SameItem(a, b) ==
    /\ a.title = b.title
    /\ a.fields = b.fields
    /\ a.mattext = b.mattext
    /\ LabelTexts(a) = LabelTexts(b)
    /\ Len(a.conds) = Len(b.conds)
    /\ [j \in 1..Len(a.feedbacks) |-> a.feedbacks[j].attrib]
         = [j \in 1..Len(b.feedbacks) |-> b.feedbacks[j].attrib]

\* C16 as stated: under a header whose names are the recognized names up to
\* letter case and surrounding whitespace, with unknown columns added or
\* recognized columns absent, every line is encoded as the item it gives when
\* each column is read under its recognized name and the absent columns are
\* empty, and a line ends the encode only if it does so under that reading.
C16_HeaderMatching ==
    SpelledUpToCase(header) =>
        /\ \A k \in 1..Len(section) :
             SameItem(section[k], BuildItem(Intended(header, csv_rows[k]), k - 1, 0))
        /\ pc = "enc_failed" =>
             RowRaises(Intended(header, csv_rows[Len(csv_rows)])) # ""

QuestionTypes == { <<"true_false_question">>, <<"multiple_choice_question">> }

FilledOptionCols(row) ==
    SelectSeq([x \in 1..MaxOptions |-> x], LAMBDA x : Strip(row[OptionCol(x)]) # <<>>)

\* the texts of the feedback blocks of an item that have the identifier ident
BlocksOf(item, ident) ==
    LET hits == SelectSeq(item.feedbacks, LAMBDA fb : fb.ident = ident)
    IN  [j \in 1..Len(hits) |-> hits[j].attrib]

\* the blocks the claim has for a feedback cell: none when the cell is empty,
\* else one, with the cell's text in a paragraph
BlocksFor(cell) ==
    IF Truthy(cell) THEN << <<"<", "p", ">">> \o cell \o <<"<", "/", "p", ">">> >> ELSE <<>>

\* C18 as stated: every encoded item has a general_fb, correct_fb and
\* general_incorrect_fb block exactly when the General, Correct and Incorrect
\* Feedback cell of its row is non-empty; and the j-th option of the item of
\* an MC row, which came from the j-th non-blank Option column, say Option x,
\* has a block keyed by its identifier exactly when Feedback x is non-empty,
\* holding the text of Feedback x.
C18_FeedbackBinding ==
    \A k \in 1..Len(section) :
        LET row  == csv_rows[k]
            item == section[k]
            cols == FilledOptionCols(row)
        IN  /\ BlocksOf(item, <<"general_fb">>) = BlocksFor(row["General Feedback"])
            /\ BlocksOf(item, <<"correct_fb">>) = BlocksFor(row["Correct Feedback"])
            /\ BlocksOf(item, <<"general_incorrect_fb">>) = BlocksFor(row["Incorrect Feedback"])
            /\ TypeCell(row) = MC =>
                 /\ Len(item.labels) = Len(cols)
                 /\ \A j \in 1..Len(item.labels) :
                      BlocksOf(item, item.labels[j].ident \o <<"_fb">>)
                          = BlocksFor(row[FeedbackCol(cols[j])])

\* a scoring rule as the claim has it: it sets the SCORE outcome to exactly
\* 100 by comparing the response to an identifier
SetsScoreTo100(cond) ==
    /\ cond.varequal # NoElem
    /\ cond.action = <<"Set">>
    /\ cond.varname = <<"SCORE">>
    /\ cond.setvar = <<"100">>

\* the Correct Answer the claim gives an item
ExpectedCorrect(item) ==
    LET n     == IF Len(item.labels) < MaxOptions THEN Len(item.labels) ELSE MaxOptions
        rules == SelectSeq(item.conds, SetsScoreTo100)
        hits  == IF rules = <<>> THEN {}
                 ELSE { k \in 1..n : item.labels[k].ident = rules[1].varequal }
    IN  IF hits = {} THEN <<>> ELSE IntStr(Min(hits))

\* C19 as stated: every written row has in Option 1..5 the cleaned texts of
\* the first five options of its item, in document order; its Correct Answer
\* is the position among them of the option named by the first rule that sets
\* SCORE to exactly 100 by comparing the response to an identifier, and is
\* empty when there is no such rule or it names none of them; hence it is
\* empty or a number in 1..(number of filled Option cells).
C19_CorrectExtraction ==
    \A j \in 1..Len(out_rows) :
        LET item   == root[row_item[j]]
            out    == out_rows[j]
            n      == IF Len(item.labels) < MaxOptions THEN Len(item.labels) ELSE MaxOptions
            filled == { x \in 1..MaxOptions : out[OptionCol(x)] # <<>> }
        IN  /\ \A x \in 1..MaxOptions :
                 out[OptionCol(x)] =
                    IF x <= n /\ item.labels[x].mattext \notin {NoElem, None}
                    THEN clean_text(item.labels[x].mattext) ELSE <<>>
            /\ out["Correct Answer"] = ExpectedCorrect(item)
            /\ out["Correct Answer"] # <<>> =>
                 /\ IsDecimalStr(out["Correct Answer"])
                 /\ IntOf(out["Correct Answer"]) \in 1..Cardinality(filled)

RECURSIVE Concat(_)
Concat(seqs) == IF seqs = <<>> THEN <<>> ELSE Head(seqs) \o Concat(Tail(seqs))

\* the number of lines of the document that gave an item: all of them, or all
\* but the last when the last one ended the conversion
Encoded == IF pc = "enc_failed" THEN Len(csv_rows) - 1 ELSE Len(csv_rows)

\* C20: in every call of a process, whatever calls returned before it, the
\* section, the question count, the running total and the warnings are those
\* of the lines this call has read, starting empty and zero; the identifiers
\* of the call are pairwise distinct; and the rows, the count and the skipped
\* count of a decode are those of the items of the package it reads.
C20_NoStateLeak ==
    /\ pc \in {"enc_loop", "enc_done", "enc_failed", "enc_write_failed", "dec_loop", "dec_done"} =>
         /\ question_count = Encoded
         /\ Len(section) = Encoded
         /\ \A k \in 1..Encoded : SameItem(section[k], BuildItem(csv_rows[k], k - 1, 0))
         /\ \A a, b \in 1..Len(GeneratedIds) : a # b => GeneratedIds[a] # GeneratedIds[b]
         /\ pc # "enc_failed" =>
              /\ total_points = SumSeq([k \in 1..Len(csv_rows) |-> RowPoints(csv_rows[k])])
              /\ warnings = Concat([k \in 1..Len(csv_rows) |-> RowWarnings(csv_rows[k], k + 1)])
         /\ csv_rows = <<>> =>
              section = <<>> /\ total_points = 0 /\ warnings = <<>> /\ question_count = 0
    /\ pc \in {"dec_loop", "dec_done"} =>
         /\ Len(root) = Len(section)
         /\ count + skipped_count = visited
         /\ count = Len(out_rows)
         /\ \A j \in 1..Len(out_rows) : out_rows[j] = DecodeRow(root[row_item[j]])

\* C20 witness: the second call of the process has written its package, for
\* one row and without a warning, after a first call that built items
C20_Witness ==
    /\ conversions = 2
    /\ pc = "enc_done"
    /\ Len(section) = 1
    /\ warnings = <<>>
    /\ total_points = 500
    /\ uuids > 3 + 3 + 1 + Len(section[1].labels)

\* C21 as stated: the item of every encoded TF row has a block keyed by the
\* identifier of its option True exactly when Feedback 1 is non-empty, holding
\* that text, and one keyed by the identifier of its option False exactly when
\* Feedback 2 is non-empty; and it has the general_fb, correct_fb and
\* general_incorrect_fb blocks exactly when the General, Correct and Incorrect
\* Feedback cells are non-empty, as the item of an MC row has.
C21_TrueFalseFeedback ==
    \A k \in 1..Len(section) :
        LET row  == csv_rows[k]
            item == section[k]
        IN  TypeCell(row) = TF =>
                /\ LabelTexts(item) = TRUE_FALSE
                /\ \A x \in 1..2 :
                     BlocksOf(item, item.labels[x].ident \o <<"_fb">>)
                         = BlocksFor(row[FeedbackCol(x)])
                /\ (BlocksOf(item, <<"general_fb">>) # <<>>) = Truthy(row["General Feedback"])
                /\ (BlocksOf(item, <<"correct_fb">>) # <<>>) = Truthy(row["Correct Feedback"])
                /\ (BlocksOf(item, <<"general_incorrect_fb">>) # <<>>)
                     = Truthy(row["Incorrect Feedback"])

\* the positions, in document order, of the items visited that the decoder
\* does not skip
NotSkipped ==
    SelectSeq([i \in 1..visited |-> i], LAMBDA i : is_supported_type(root[i]))

\* C22: while the encoder runs and when it has written the package, the
\* section holds one item per line read, the k-th built from the k-th line,
\* question_count is their number whatever warnings were recorded, and the
\* assessment document written holds these items in that order; while the
\* decoder's loop runs and when it has ended, the rows written are those of
\* the items visited that were not skipped, in document order, the rows written
\* plus the skipped count are the items visited, and at the end every item has
\* been visited.
C22_CountAndOrder ==
    /\ Encoding =>
         /\ Len(section) = Len(csv_rows)
         /\ question_count = Len(csv_rows)
         /\ \A k \in 1..Len(csv_rows) :
              /\ section[k].mattext = BuildItem(csv_rows[k], k - 1, 0).mattext
              /\ LabelTexts(section[k]) = RowAnswers(csv_rows[k])
         /\ zip # <<>> =>
              /\ Len(zip[2].doc.items) = Len(section)
              /\ \A k \in 1..Len(section) :
                   XmlUnescapeFrom(zip[2].doc.items[k].ident, 1) = section[k].ident
    /\ pc \in {"dec_loop", "dec_done"} =>
         /\ count + skipped_count = visited
         /\ count = Len(out_rows)
         /\ row_item = NotSkipped
         /\ \A j \in 1..Len(out_rows) : out_rows[j]["Type"] = DetectType(root[row_item[j]])
         /\ skipped_count = visited - Len(NotSkipped)
         /\ pc = "dec_done" => visited = Len(root)

\* C22 witness: a decode that has ended after skipping the first item of a
\* package and writing the row of the second
C22_Witness ==
    /\ pc = "dec_done"
    /\ visited = 2
    /\ skipped_count = 1
    /\ count = 1
    /\ row_item = <<2>>

====
